---- MODULE Spec2Model ----
(***************************************************************************)
(* A model of tiedit (src/tiedit.c): the terminfo loader LoadTerminfo, the *)
(* record _info it fills, the process life cycle around it (signal         *)
(* handlers, exit, CleanupUI), the row renderer DrawLine and the packed    *)
(* capability-name tables read by GetStrtableEntry.                        *)
(*                                                                         *)
(* Memory is modelled byte by byte.  A byte that was allocated and never   *)
(* written holds Uninit.  A heap block is named after the field of _info   *)
(* that first pointed to it.                                               *)
(***************************************************************************)
EXTENDS Integers, Sequences, FiniteSets, TLC

\* ------------------------------------------------------------ constants

NBooleans == 44
NNumbers == 39
NStrings == 414
FirstBoolean == 0
FirstNumber == FirstBoolean + NBooleans
FirstString == FirstNumber + NNumbers
NValues == FirstString + NStrings

TERMINFO_MAGIC == 282
HeaderSize == 12
INT_MAX == 2147483647

KEY_ESCAPE == 27
KEY_DOWN == 258
KEY_UP == 259
KEY_HOME == 262
KEY_NPAGE == 338
KEY_PPAGE == 339
KEY_END == 360

\* ------------------------------------------------------------ bounds

MaxNameSize == 1
MaxStrtable == 1
MaxSeed == 1
MaxLines == 3
MaxSigCount == 1
MaxBeyond == 2
MaxDrawStrings == 2
MaxDrawTable == 2

\* ------------------------------------------------------------ bytes

NULL == "NULL"
Uninit == 0 - 1

\* A C unsigned (32 bits) is held as the int with the same bits: a negative n
\* stands for 2^32 + n.  The operators below are the C operators on unsigned.
ULess(a, b) == IF (a < 0) = (b < 0) THEN a < b ELSE b < 0

UAdd(a, b) ==
  IF a >= 0 /\ b >= 0 /\ a > INT_MAX - b THEN (a - INT_MAX - 1) + (b - INT_MAX - 1)
  ELSE IF a < 0 /\ b < 0 /\ a < (-INT_MAX - 1) - b THEN (a + INT_MAX + 1) + (b + INT_MAX + 1)
  ELSE a + b

USub(a, b) ==
  IF a >= 0 /\ b < 0 /\ a > INT_MAX + b THEN (a - INT_MAX - 1) - (b + INT_MAX + 1)
  ELSE IF a < 0 /\ b >= 0 /\ a < (-INT_MAX - 1) + b THEN (a + INT_MAX + 1) - (b - INT_MAX - 1)
  ELSE a - b

UHalf(a) == IF a >= 0 THEN a \div 2 ELSE ((a + INT_MAX + 1) \div 2) + 1073741824

\* static inline unsigned min (unsigned a, unsigned b)
min(a, b) == IF ULess(a, b) THEN a ELSE b

\* A uint16_t as it lies in memory on the host (little-endian).
Bytes16(v) == <<v % 256, v \div 256>>

\* The uint16_t read from bytes b[i], b[i+1]; indeterminate when either is.
U16(b, i) == IF b[i] = Uninit \/ b[i+1] = Uninit THEN Uninit ELSE b[i] + 256 * b[i+1]

RECURSIVE Flatten(_)
Flatten(ss) == IF ss = <<>> THEN <<>> ELSE Head(ss) \o Flatten(Tail(ss))

Fill(n, v) == [i \in 1..n |-> v]

\* ------------------------------------------------------------ the record

Sections == <<"name", "abool", "anum", "astro", "strings">>
SectionSet == {Sections[k] : k \in 1..5}

\* sizeof of one element of each section (tiedit.c:129-133).
ElemSize(s) == IF s \in {"anum", "astro"} THEN 2 ELSE 1

\* The element count the header declares for a section.
Count(h, s) ==
  CASE s = "name" -> h.nameSize
    [] s = "abool" -> h.nBooleans
    [] s = "anum" -> h.nNumbers
    [] s = "astro" -> h.nStrings
    [] s = "strings" -> h.strtableSize

SectionBytes(h, s) == Count(h, s) * ElemSize(s)

\* struct STerminfoHeader read from 12 bytes of memory.
STerminfoHeader(b) ==
  [magic |-> U16(b, 1), nameSize |-> U16(b, 3), nBooleans |-> U16(b, 5),
   nNumbers |-> U16(b, 7), nStrings |-> U16(b, 9), strtableSize |-> U16(b, 11)]

HeaderBytes(h) ==
  Bytes16(h.magic) \o Bytes16(h.nameSize) \o Bytes16(h.nBooleans)
    \o Bytes16(h.nNumbers) \o Bytes16(h.nStrings) \o Bytes16(h.strtableSize)

\* static struct STerminfo _info = {{0,0,0,0,0,0},NULL,NULL,NULL,NULL,NULL};
STerminfo ==
  [hb |-> Fill(HeaderSize, 0), p |-> [s \in SectionSet |-> NULL]]

NoBlock == [st |-> "none", data |-> <<>>, frees |-> 0]

\* ------------------------------------------------------------ input files

\* The contents of a section of a generated file: patterns that put a NUL or
\* none in the names, both truth values, -1 and other numbers, and offsets
\* inside, at the end of and beyond the string table.
NameByte(n, i, seed) == IF i = n /\ seed = 0 THEN 0 ELSE 120
BoolByte(i, seed) == (i + seed) % 2
NumWord(i, seed) == IF (i + seed) % 2 = 0 THEN 65535 ELSE 80 + i
OffWord(size, i, seed) ==
  LET k == (i + seed) % 4 IN
  IF k = 0 THEN 0 ELSE IF k = 1 THEN 65535 ELSE IF k = 2 THEN size
  ELSE IF size = 0 THEN 0 ELSE size - 1
StrByte(i, seed) == IF (i + seed) % 2 = 0 THEN 0 ELSE 65

SectionData(h, s, seed) ==
  CASE s = "name" -> [i \in 1..h.nameSize |-> NameByte(h.nameSize, i, seed)]
    [] s = "abool" -> [i \in 1..h.nBooleans |-> BoolByte(i, seed)]
    [] s = "anum" ->
         [j \in 1..2 * h.nNumbers |-> Bytes16(NumWord((j + 1) \div 2, seed))[2 - (j % 2)]]
    [] s = "astro" ->
         [j \in 1..2 * h.nStrings |->
            Bytes16(OffWord(h.strtableSize, (j + 1) \div 2, seed))[2 - (j % 2)]]
    [] s = "strings" -> [i \in 1..h.strtableSize |-> StrByte(i, seed)]

FullFile(h, seed) ==
  HeaderBytes(h) \o SectionData(h, "name", seed) \o SectionData(h, "abool", seed)
    \o SectionData(h, "anum", seed) \o SectionData(h, "astro", seed)
    \o SectionData(h, "strings", seed)

\* Where section k of a file with header h ends.
RECURSIVE SectionEnd(_, _)
SectionEnd(h, k) ==
  IF k = 0 THEN HeaderSize ELSE SectionEnd(h, k - 1) + SectionBytes(h, Sections[k])

\* The headers of the generated files: every count empty, single, at its
\* maximum and one above; with a wrong magic, only the largest sizes.
Headers ==
  {hd \in [magic : {TERMINFO_MAGIC, 0},
           nameSize : 0..MaxNameSize,
           nBooleans : {0, 1, NBooleans, NBooleans + 1},
           nNumbers : {0, 1, NNumbers, NNumbers + 1},
           nStrings : {0, 1, NStrings, NStrings + 1},
           strtableSize : 0..MaxStrtable] :
     hd.magic = TERMINFO_MAGIC \/ (hd.nameSize = MaxNameSize /\ hd.strtableSize = MaxStrtable)}

\* The lengths a file is cut to: inside the header, and one byte short of
\* the end of each section, and not at all.
CutPoints(h) ==
  {0, 2, HeaderSize - 1, HeaderSize, SectionEnd(h, 5)}
    \cup {SectionEnd(h, k) - 1 : k \in {j \in 1..5 : SectionBytes(h, Sections[j]) > 0}}

NoFile == <<-2>>

Files ==
  {NoFile} \cup
  UNION {{SubSeq(FullFile(h, seed), 1, n) : n \in CutPoints(h), seed \in 0..MaxSeed} :
         h \in Headers}

\* The files loaded while signals arrive: short sections, whole or cut.
SigHeaders ==
  [magic : {TERMINFO_MAGIC}, nameSize : {MaxSigCount}, nBooleans : 0..MaxSigCount,
   nNumbers : {MaxSigCount}, nStrings : 0..MaxSigCount, strtableSize : {MaxSigCount}]

SigFiles ==
  UNION {{SubSeq(FullFile(hd, 0), 1, n) : n \in {HeaderSize, SectionEnd(hd, 5)}} :
         hd \in SigHeaders}

\* ------------------------------------------------------------ state

VARIABLES
  file,          \* the bytes of the file LoadTerminfo opens, or NoFile
  realloc0Null,  \* the C library's realloc returns NULL for a size of 0
  pos,           \* the file offset of fd
  nreads,        \* how many times read() was called
  _info,         \* struct STerminfo: the header's bytes hb and the pointers p
  heap,          \* the heap blocks: state, bytes, how often each was freed
  pc,            \* where main is
  hpc,           \* where the quit-signal handler is, <<"idle", 0>> when not running
  err,           \* the diagnostic the process printed before exit
  installed,     \* InstallCleanupHandlers has run
  atexitRun,     \* exit() has started the atexit handler
  s_FirstTime,   \* OnQuitSignal's static flag
  uiUp,          \* initscr() succeeded and endwin() was not called since
  LINES,         \* curses' LINES
  _quitting, _topline, _selection,
  drawSaw,       \* what the last Draw() found the record to be
  line,          \* what the last DrawLine() call under test printed
  lookup,        \* the last catalog lookup under test and its result
  run, prev      \* the load that runs (1 or 2) and the outcome of the first

envVars == <<file, realloc0Null>>
loadVars == <<pos, nreads, _info, heap>>
procVars == <<installed, atexitRun, s_FirstTime>>
uiVars == <<uiUp, LINES, _quitting, _topline, _selection>>
obsVars == <<drawSaw, line, lookup, run, prev>>
vars == <<envVars, loadVars, pc, hpc, err, procVars, uiVars, obsVars>>

\* The header with every value of every class declared present.
hAllDeclared ==
  [STerminfoHeader(_info.hb) EXCEPT
     !.nBooleans = NBooleans, !.nNumbers = NNumbers, !.nStrings = NStrings]

h == STerminfoHeader(_info.hb)

\* No DrawLine call under test was made, and no first load has ended.
NoLine == [class |-> "none"]
NoOutcome == [err |-> "unset", hb |-> <<>>, data |-> [s \in SectionSet |-> <<>>]]

\* No catalog lookup was made.
NoLookup ==
  [arch |-> "none", class |-> "none", idx |-> 0, i |-> 0, p |-> 0, cnt |-> 0, done |-> TRUE]

Idle == <<"idle", 0>>
Done == <<"done", 0>>

\* The context that runs: the quit handler once it started (it never returns).
CurPc == IF hpc = Idle THEN pc ELSE hpc
SetPc(v) == IF hpc = Idle THEN pc' = v /\ UNCHANGED hpc ELSE hpc' = v /\ UNCHANGED pc
InMain(label, k) == hpc = Idle /\ pc = <<label, k>>

InitProcess ==
  /\ pos = 0
  /\ nreads = 0
  /\ _info = STerminfo
  /\ heap = [s \in SectionSet |-> NoBlock]
  /\ pc = <<"main", 0>>
  /\ hpc = Idle
  /\ err = "none"
  /\ installed = FALSE
  /\ atexitRun = FALSE
  /\ s_FirstTime = TRUE
  /\ uiUp = FALSE
  /\ LINES = 0
  /\ _quitting = FALSE
  /\ _topline = 0
  /\ _selection = 0
  /\ drawSaw = [rows |-> 0, state |-> "none", nameReads |-> 0]
  /\ line = NoLine
  /\ lookup = NoLookup
  /\ run = 1
  /\ prev = NoOutcome

Init ==
  /\ file \in Files
  /\ realloc0Null \in BOOLEAN
  /\ InitProcess

\* ------------------------------------------------------------ utility functions

\* read (fd, buf, bufsz) on a regular file: the bytes left, at most bufsz.
read(bufsz) == min(bufsz, Len(file) - pos)

\* ReadBytes without its test: a short read goes unnoticed.
ReadBytesUnchecked(bufsz) == FALSE

\* ReadBytes' test: the read was short.
ReadBytesFails(bufsz) == bufsz # read(bufsz)

\* buf after read() stored n bytes of the file at its start.
Stored(buf, n) == [i \in 1..Len(buf) |-> IF i <= n THEN file[pos + i] ELSE buf[i]]

\* realloc (op, nsz) returns NULL: only for a size of 0, where the C library chooses.
ReallocNull(nsz) == nsz = 0 /\ realloc0Null

\* The block realloc returns: nsz bytes, the old ones kept.
Realloced(old, nsz) ==
  [st |-> "live",
   data |-> [i \in 1..nsz |-> IF old.st = "live" /\ i <= Len(old.data) THEN old.data[i] ELSE Uninit],
   frees |-> 0]

\* exit (EXIT_FAILURE) after a diagnostic.
Fail(msg) == err' = msg /\ pc' = <<"exit", 0>>

\* ------------------------------------------------------------ LoadTerminfo

InstallCleanupHandlers ==
  /\ InMain("main", 0)
  /\ installed' = TRUE
  /\ pc' = <<"open", 0>>
  /\ UNCHANGED <<envVars, loadVars, hpc, err, atexitRun, s_FirstTime, uiVars, obsVars>>

Open ==
  /\ InMain("open", 0)
  /\ IF file = NoFile THEN Fail("open") ELSE pc' = <<"header", 0>> /\ UNCHANGED err
  /\ UNCHANGED <<envVars, loadVars, hpc, procVars, uiVars, obsVars>>

\* ReadBytes (fd, &_info.h, sizeof(_info.h));
ReadHeader ==
  /\ InMain("header", 0)
  /\ nreads' = nreads + 1
  /\ pos' = pos + read(HeaderSize)
  /\ _info' = [_info EXCEPT !.hb = Stored(@, read(HeaderSize))]
  /\ IF ReadBytesFails(HeaderSize) THEN Fail("read") ELSE pc' = <<"check", 0>> /\ UNCHANGED err
  /\ UNCHANGED <<envVars, heap, hpc, procVars, uiVars, obsVars>>

\* The header test without the magic, and without the count of strings.
NotTerminfoAnyMagic(hd) ==
  \/ hd.nBooleans > NBooleans
  \/ hd.nNumbers > NNumbers
  \/ hd.nStrings > NStrings

NotTerminfoAnyStrings(hd) ==
  \/ hd.magic # TERMINFO_MAGIC
  \/ hd.nBooleans > NBooleans
  \/ hd.nNumbers > NNumbers

\* The test of tiedit.c:122-125.
NotTerminfo(hd) ==
  \/ hd.magic # TERMINFO_MAGIC
  \/ hd.nBooleans > NBooleans
  \/ hd.nNumbers > NNumbers
  \/ hd.nStrings > NStrings

CheckHeader ==
  /\ InMain("check", 0)
  /\ IF NotTerminfo(h) THEN Fail("format") ELSE pc' = <<"alloc", 1>> /\ UNCHANGED err
  /\ UNCHANGED <<envVars, loadVars, hpc, procVars, uiVars, obsVars>>

\* _info.X = Realloc (_info.X, count * sizeof(element));
Alloc(k) ==
  LET s == Sections[k]
      nsz == SectionBytes(h, s)
  IN
  /\ InMain("alloc", k)
  /\ IF ReallocNull(nsz)
     THEN Fail("memory") /\ UNCHANGED <<_info, heap>>
     ELSE /\ heap' = [heap EXCEPT ![s] = Realloced(@, nsz)]
          /\ _info' = [_info EXCEPT !.p[s] = s]
          /\ pc' = IF k < 5 THEN <<"alloc", k + 1>> ELSE <<"read", 1>>
          /\ UNCHANGED err
  /\ UNCHANGED <<envVars, pos, nreads, hpc, procVars, uiVars, obsVars>>

\* ReadBytes (fd, _info.X, count * sizeof(element));
Read(k) ==
  LET s == Sections[k]
      bufsz == SectionBytes(h, s)
  IN
  /\ InMain("read", k)
  /\ nreads' = nreads + 1
  /\ pos' = pos + read(bufsz)
  /\ heap' = [heap EXCEPT ![s].data = Stored(@, read(bufsz))]
  /\ IF ReadBytesFails(bufsz)
     THEN Fail("read")
     ELSE pc' = (IF k < 5 THEN <<"read", k + 1>> ELSE <<"close", 0>>) /\ UNCHANGED err
  /\ UNCHANGED <<envVars, _info, hpc, procVars, uiVars, obsVars>>

Close ==
  /\ InMain("close", 0)
  /\ pc' = <<"InitUI", 0>>
  /\ UNCHANGED <<envVars, loadVars, hpc, err, procVars, uiVars, obsVars>>

\* ------------------------------------------------------------ UI

\* The byte at index i (from 0) of the buffer _info.s points to; indeterminate
\* when the pointer is NULL or dangling, or the byte outside the block or unwritten.
Byte(s, i) ==
  IF _info.p[s] = NULL THEN Uninit
  ELSE LET b == heap[_info.p[s]] IN
       IF b.st = "live" /\ i >= 0 /\ i < Len(b.data) THEN b.data[i + 1] ELSE Uninit

\* The 16-bit element i of _info.anum or _info.astro, unsigned.
Word(s, i) ==
  IF Byte(s, 2 * i) = Uninit \/ Byte(s, 2 * i + 1) = Uninit THEN Uninit
  ELSE Byte(s, 2 * i) + 256 * Byte(s, 2 * i + 1)

\* strnlen that counts to maxlen whatever the bytes are.
strnlenToMax(off, maxlen) == maxlen

\* strlen in the place of strnlen: it counts up to a NUL, and onto the first
\* byte behind the table when there is none.
RECURSIVE strnlenPastEnd(_, _)
strnlenPastEnd(off, maxlen) ==
  IF Byte("strings", off) = 0 THEN 0
  ELSE IF Byte("strings", off) = Uninit THEN 1
  ELSE 1 + strnlenPastEnd(off + 1, maxlen - 1)

\* strnlen (_info.strings + off, maxlen)
RECURSIVE strnlen(_, _)
strnlen(off, maxlen) ==
  IF maxlen = 0 \/ Byte("strings", off) = 0 THEN 0 ELSE 1 + strnlen(off + 1, maxlen - 1)

\* What DrawLine prints for one byte of a string value.
Printed(c) ==
  IF c = Uninit THEN <<Uninit>>
  ELSE IF c < 32 THEN <<94, 64 + c>>
  ELSE IF c > 126 THEN <<92, 48 + (c \div 64), 48 + ((c \div 8) % 8), 48 + (c % 8)>>
  ELSE <<c>>

\* DrawLine (l): the row's class and ordinal, what is printed after the name
\* (v; known is FALSE when it was computed from an indeterminate byte), and
\* the elements of the record the call read.  For a string, s is the offset
\* into _info.strings that s points to when inTable, else s is "".
DrawLine(l) ==
  LET dl == UAdd(_topline, l) IN
  IF ULess(dl, FirstNumber) THEN
    LET di == dl - FirstBoolean
        rd == di < h.nBooleans
        b == Byte("abool", di)
    IN [class |-> "boolean", di |-> di,
        known |-> ~rd \/ b # Uninit,
        v |-> IF rd /\ b # 0 THEN "true" ELSE "false",
        reads |-> IF rd THEN {<<"abool", di>>} ELSE {}]
  ELSE IF ULess(dl, FirstString) THEN
    LET di == dl - FirstNumber
        rd == di < h.nNumbers
        w == Word("anum", di)
    IN [class |-> "number", di |-> di,
        known |-> ~rd \/ w # Uninit,
        v |-> IF ~rd \/ w = Uninit THEN -1 ELSE IF w >= 32768 THEN w - 65536 ELSE w,
        reads |-> IF rd THEN {<<"anum", di>>} ELSE {}]
  ELSE IF ULess(dl, NValues) THEN
    LET di == dl - FirstString
        rd == di < h.nStrings
        off == Word("astro", di)
    IN IF rd /\ off # Uninit /\ off < h.strtableSize THEN
         LET slen == strnlen(off, h.strtableSize - off) IN
         [class |-> "string", di |-> di, inTable |-> TRUE, s |-> off, slen |-> slen,
          known |-> \A i \in 0..(slen - 1) : Byte("strings", off + i) # Uninit,
          v |-> Flatten([i \in 1..slen |-> Printed(Byte("strings", off + i - 1))]),
          reads |-> {<<"astro", di>>}
                      \cup {<<"strings", off + i>> : i \in 0..min(slen, h.strtableSize - off - 1)}]
       ELSE
         [class |-> "string", di |-> di, inTable |-> FALSE, s |-> 0, slen |-> 0,
          known |-> ~rd \/ off # Uninit,
          v |-> <<>>,
          reads |-> IF rd THEN {<<"astro", di>>} ELSE {}]
  ELSE [class |-> "???", di |-> dl, known |-> TRUE, reads |-> {}]

\* Whether the record is untouched, wholly loaded, or in between.
RecordState ==
  IF _info = STerminfo THEN "empty"
  ELSE IF \A s \in SectionSet :
            /\ _info.p[s] # NULL
            /\ heap[_info.p[s]].st = "live"
            /\ Len(heap[_info.p[s]].data) = SectionBytes(h, s)
            /\ \A i \in 1..SectionBytes(h, s) : heap[_info.p[s]].data[i] # Uninit
       THEN "complete"
  ELSE "partial"

\* The rows Draw() draws: min (NValues, LINES-1), in unsigned arithmetic.
nVisible == min(NValues, LINES - 1)

\* The index of the byte that ends the string at _info.name + i: the first
\* NUL, or the first byte that is outside the block or was never written.
RECURSIVE NameEnd(_)
NameEnd(i) == IF Byte("name", i) \in {0, Uninit} THEN i ELSE NameEnd(i + 1)

\* mvaddstr (LINES-1, 1, _info.name): the bytes of _info.name it reads, the
\* first of them at index 0 and the last the one that ends the string; none
\* for NULL.  When the last is outside the block, what lies behind it decides
\* how many more are read.
mvaddstr == IF _info.p["name"] = NULL THEN 0 ELSE NameEnd(0) + 1

\* Draw(): the rows drawn from the record, what the record was then, and the
\* bytes of _info.name read for the status line.
Draw == [rows |-> nVisible, state |-> RecordState, nameReads |-> mvaddstr]

\* OnKey (key): the new _quitting, _selection and _topline.
OnKey(key) ==
  LET pageSize == LINES - 1
      quit == key = KEY_ESCAPE \/ key = 113
      sel ==
        IF quit THEN _selection
        ELSE IF key = KEY_HOME \/ key = 48 THEN 0
        ELSE IF key = KEY_END \/ key = 71 THEN NValues - 1
        ELSE IF key = 72 THEN _topline
        ELSE IF key = 77 THEN UAdd(_topline, UHalf(USub(pageSize, 1)))
        ELSE IF key = 76 THEN UAdd(_topline, USub(pageSize, 1))
        ELSE IF (key = KEY_UP \/ key = 107) /\ ULess(0, _selection) THEN USub(_selection, 1)
        ELSE IF (key = KEY_DOWN \/ key = 106) /\ ULess(_selection, NValues - 1)
          THEN UAdd(_selection, 1)
        ELSE IF key = KEY_PPAGE \/ key = 98 THEN
          (IF ULess(pageSize, _selection) THEN USub(_selection, pageSize) ELSE 0)
        ELSE IF key = KEY_NPAGE \/ key = 32 THEN
          (IF ULess(UAdd(_selection, pageSize), NValues - 1)
           THEN UAdd(_selection, pageSize) ELSE NValues - 1)
        ELSE _selection
      top1 == IF ULess(sel, _topline) THEN sel ELSE _topline
      top2 == IF ULess(USub(UAdd(top1, pageSize), 1), sel)
              THEN USub(sel, USub(pageSize, 1)) ELSE top1
  IN [quitting |-> _quitting \/ quit, selection |-> sel, topline |-> top2]

\* The keys getch() delivers while the loader is examined: none, and q.
LoadKeys == {-1, 113}

InitUI ==
  /\ InMain("InitUI", 0)
  /\ \/ /\ Fail("ui")
        /\ UNCHANGED <<uiUp, LINES>>
     \/ /\ uiUp' = TRUE
        /\ LINES' \in 1..MaxLines
        /\ pc' = <<"EventLoop", 0>>
        /\ UNCHANGED err
  /\ UNCHANGED <<envVars, loadVars, hpc, procVars, _quitting, _topline, _selection, obsVars>>

\* while (!_quitting) { Draw(); ...
EventLoopDraw ==
  /\ InMain("EventLoop", 0)
  /\ ~_quitting
  /\ drawSaw' = Draw
  /\ pc' = <<"getch", 0>>
  /\ UNCHANGED <<envVars, loadVars, hpc, err, procVars, uiVars, line, lookup, run, prev>>

\* A key handler that edits the record: it inverts the booleans.
EventLoopKeyEdits(key) ==
  /\ InMain("getch", 0)
  /\ _quitting' = OnKey(key).quitting
  /\ _selection' = OnKey(key).selection
  /\ _topline' = OnKey(key).topline
  /\ heap' = [heap EXCEPT !["abool"].data = [i \in 1..Len(@) |-> 1 - @[i]]]
  /\ pc' = <<"EventLoop", 0>>
  /\ UNCHANGED <<envVars, pos, nreads, _info, hpc, err, procVars, uiUp, LINES, obsVars>>

\* ... int key = getch(); if (key > 0) OnKey (key); }
EventLoopKey(key) ==
  /\ InMain("getch", 0)
  /\ IF key > 0
     THEN /\ _quitting' = OnKey(key).quitting
          /\ _selection' = OnKey(key).selection
          /\ _topline' = OnKey(key).topline
     ELSE UNCHANGED <<_quitting, _selection, _topline>>
  /\ pc' = <<"EventLoop", 0>>
  /\ UNCHANGED <<envVars, loadVars, hpc, err, procVars, uiUp, LINES, obsVars>>

\* main returns EXIT_SUCCESS once the loop ends.
MainReturn ==
  /\ InMain("EventLoop", 0)
  /\ _quitting
  /\ pc' = <<"exit", 0>>
  /\ UNCHANGED <<envVars, loadVars, hpc, err, procVars, uiVars, obsVars>>

\* ------------------------------------------------------------ process housekeeping

\* free (p): nothing for NULL; else the block is freed once more.
Freed(hp, p) ==
  IF p = NULL THEN hp ELSE [hp EXCEPT ![p].st = "freed", ![p].frees = @ + 1]

\* The pointer each step of CleanupUI tests, and the one it then frees
\* (tiedit.c:278-285).
CleanupTest == <<"name", "abool", "astro", "astro">>
CleanupFree == <<"name", "abool", "astro", "strings">>

\* CleanupUI, one statement at a time: endwin (k = 0), the four guarded
\* free calls (k = 1..4) and the memset (k = 5).  from is "cuX" when exit()
\* runs it as the atexit handler and "cuH" when OnQuitSignal calls it.
CleanupUI(from, k) ==
  /\ CurPc = <<from, k>>
  /\ uiUp' = IF k = 0 THEN FALSE ELSE uiUp
  /\ heap' = IF k \in 1..4 /\ _info.p[CleanupTest[k]] # NULL
             THEN Freed(heap, _info.p[CleanupFree[k]]) ELSE heap
  /\ _info' = IF k = 5 THEN STerminfo ELSE _info
  /\ SetPc(IF k < 5 THEN <<from, k + 1>>
           ELSE IF from = "cuX" THEN Done ELSE <<"hexit", 0>>)
  /\ UNCHANGED <<envVars, pos, nreads, err, procVars, LINES, _quitting, _topline, _selection,
                 obsVars>>

\* exit(): the atexit handler CleanupUI runs, then the process ends.  exit()
\* called while exit() runs is undefined: the handler may run again or not.
Exit ==
  /\ CurPc = <<"exit", 0>>
  /\ atexitRun' = TRUE
  /\ \/ installed /\ SetPc(<<"cuX", 0>>)
     \/ (atexitRun \/ ~installed) /\ SetPc(Done)
  /\ UNCHANGED <<envVars, loadVars, err, installed, s_FirstTime, uiVars, obsVars>>

Terminated == CurPc = Done

\* A signal of sigset_Quit arrives: OnQuitSignal up to its call of CleanupUI,
\* or, the second time, up to _Exit.
OnQuitSignal ==
  /\ installed
  /\ ~Terminated
  /\ IF s_FirstTime
     THEN s_FirstTime' = FALSE /\ hpc' = <<"cuH", 0>> /\ UNCHANGED err
     ELSE hpc' = Done /\ err' = "double" /\ UNCHANGED s_FirstTime
  /\ UNCHANGED <<envVars, loadVars, pc, installed, atexitRun, uiVars, obsVars>>

\* OnQuitSignal after CleanupUI returned: psignal, exit (EXIT_FAILURE).
OnQuitSignalExit ==
  /\ hpc = <<"hexit", 0>>
  /\ err' = "signal"
  /\ hpc' = <<"exit", 0>>
  /\ UNCHANGED <<envVars, loadVars, pc, procVars, uiVars, obsVars>>

\* A signal of sigset_Msg arrives: Draw(); refresh();
OnMsgSignal ==
  /\ installed
  /\ ~Terminated
  /\ drawSaw' = Draw
  /\ UNCHANGED <<envVars, loadVars, pc, hpc, err, procVars, uiVars, line, lookup, run, prev>>

\* ------------------------------------------------------------ specifications

LoadTerminfo ==
  \/ Open
  \/ ReadHeader
  \/ CheckHeader
  \/ \E k \in 1..5 : Alloc(k)
  \/ \E k \in 1..5 : Read(k)
  \/ Close

Main ==
  \/ InstallCleanupHandlers
  \/ LoadTerminfo
  \/ InitUI
  \/ EventLoopDraw
  \/ \E key \in LoadKeys : EventLoopKey(key)
  \/ MainReturn
  \/ Exit
  \/ \E k \in 0..5 : CleanupUI("cuX", k)

\* The program without signals.
Next == Main

Spec == Init /\ [][Next]_vars

\* The program with signals of both sets arriving at any moment after
\* InstallCleanupHandlers.
InitSig ==
  /\ file \in SigFiles
  /\ realloc0Null \in BOOLEAN
  /\ InitProcess

NextSig ==
  \/ Main
  \/ OnQuitSignal
  \/ \E k \in 0..5 : CleanupUI("cuH", k)
  \/ OnQuitSignalExit
  \/ OnMsgSignal

SpecSig == InitSig /\ [][NextSig]_vars

\* ------------------------------------------------------------ loading twice

\* LoadTerminfo is over: it returned, or it called exit.
LoadEnded == pc = <<"InitUI", 0>> \/ (pc = <<"exit", 0>> /\ err # "none")

\* What a load produced: the error, or the header and the five sections.
Outcome ==
  [err |-> err,
   hb |-> IF err = "none" THEN _info.hb ELSE <<>>,
   data |-> [s \in SectionSet |-> IF err = "none" THEN heap[s].data ELSE <<>>]]

\* The first load is over: its outcome is kept, and LoadTerminfo is called
\* again on the same file with the record and the heap as they were at first.
Reload ==
  /\ run = 1
  /\ LoadEnded
  /\ prev' = Outcome
  /\ run' = 2
  /\ pos' = 0
  /\ nreads' = 0
  /\ _info' = STerminfo
  /\ heap' = [s \in SectionSet |-> NoBlock]
  /\ pc' = <<"open", 0>>
  /\ err' = "none"
  /\ UNCHANGED <<envVars, hpc, procVars, uiVars, drawSaw, line, lookup>>

NextTwice ==
  \/ InstallCleanupHandlers
  \/ LoadTerminfo
  \/ Reload

SpecTwice == Init /\ [][NextTwice]_vars

\* ------------------------------------------------------------ drawing a row

\* The records whose string rows are drawn: up to MaxDrawStrings offsets,
\* each inside, at the end of or beyond a table of up to MaxDrawTable bytes
\* that are NUL, a control character, a letter or a byte above '~'.
DrawRecords ==
  UNION {
    UNION {[astro : [1..n -> (0..size) \cup {65535}], strings : [1..size -> {0, 1, 65, 200}]] :
           n \in 0..MaxDrawStrings} :
    size \in 0..MaxDrawTable}

\* The header and the heap LoadTerminfo leaves for such a record.
DrawHeader(r) ==
  [magic |-> TERMINFO_MAGIC, nameSize |-> 0, nBooleans |-> 0, nNumbers |-> 0,
   nStrings |-> Len(r.astro), strtableSize |-> Len(r.strings)]

DrawHeap(r) ==
  [s \in SectionSet |->
     [st |-> "live", frees |-> 0,
      data |-> IF s = "astro" THEN [j \in 1..2 * Len(r.astro) |->
                                      Bytes16(r.astro[(j + 1) \div 2])[2 - (j % 2)]]
               ELSE IF s = "strings" THEN r.strings ELSE <<>>]]

\* The event loop at work on a loaded record, scrolled to the string rows.
InitDrawLine ==
  /\ realloc0Null = FALSE
  /\ \E r \in DrawRecords :
       /\ file = FullFile(DrawHeader(r), 0)
       /\ _info = [hb |-> HeaderBytes(DrawHeader(r)), p |-> [s \in SectionSet |-> s]]
       /\ heap = DrawHeap(r)
       /\ pos = HeaderSize + 2 * Len(r.astro) + Len(r.strings)
  /\ nreads = 6
  /\ pc = <<"EventLoop", 0>>
  /\ hpc = Idle
  /\ err = "none"
  /\ installed = TRUE
  /\ atexitRun = FALSE
  /\ s_FirstTime = TRUE
  /\ uiUp = TRUE
  /\ LINES = MaxLines
  /\ _quitting = FALSE
  /\ _topline = FirstString
  /\ _selection = FirstString
  /\ drawSaw = [rows |-> 0, state |-> "none", nameReads |-> 0]
  /\ line = NoLine
  /\ lookup = NoLookup
  /\ run = 1
  /\ prev = NoOutcome

\* Draw() calls DrawLine (l) for a visible row.
DrawLineCall(l) ==
  /\ InMain("EventLoop", 0)
  /\ ULess(l, nVisible)
  /\ line' = DrawLine(l)
  /\ UNCHANGED <<envVars, loadVars, pc, hpc, err, procVars, uiVars, drawSaw, lookup, run, prev>>

NextDrawLine == \E l \in 0..MaxLines : DrawLineCall(l)

SpecDrawLine == InitDrawLine /\ [][NextDrawLine]_vars

\* ------------------------------------------------------------ the event loop

\* LoadTerminfo has returned with the record of a file with header hd.
Loaded(hd, seed) ==
  /\ file = FullFile(hd, seed)
  /\ _info = [hb |-> HeaderBytes(hd), p |-> [s \in SectionSet |-> s]]
  /\ heap = [s \in SectionSet |->
               [st |-> "live", data |-> SectionData(hd, s, seed), frees |-> 0]]
  /\ pos = SectionEnd(hd, 5)
  /\ nreads = 6

\* main enters EventLoop: the handlers are installed, curses is up, and the
\* globals are as initialised.
InEventLoop ==
  /\ pc = <<"EventLoop", 0>>
  /\ hpc = Idle
  /\ err = "none"
  /\ installed = TRUE
  /\ atexitRun = FALSE
  /\ s_FirstTime = TRUE
  /\ uiUp = TRUE
  /\ _quitting = FALSE
  /\ drawSaw = [rows |-> 0, state |-> "none", nameReads |-> 0]
  /\ line = NoLine
  /\ lookup = NoLookup
  /\ run = 1
  /\ prev = NoOutcome

\* A terminal with more rows than there are values.
TallLines == NValues + 3

\* The keys OnKey tells apart, and one it ignores ('x').
Keys ==
  {KEY_ESCAPE, 113, KEY_HOME, 48, KEY_END, 71, 72, 77, 76, KEY_UP, 107,
   KEY_DOWN, 106, KEY_PPAGE, 98, KEY_NPAGE, 32, 120}

\* The record shown while keys are pressed: one value of each class.
KeysHeader ==
  [magic |-> TERMINFO_MAGIC, nameSize |-> 1, nBooleans |-> 1, nNumbers |-> 1,
   nStrings |-> 1, strtableSize |-> 1]

InitKeys ==
  /\ realloc0Null = FALSE
  /\ Loaded(KeysHeader, 0)
  /\ InEventLoop
  /\ LINES \in (1..MaxLines) \cup {TallLines}
  /\ _topline = 0
  /\ _selection = 0

\* getch() returns a key and OnKey handles it.  Keys are followed while the
\* selection is a row of the table.
KeyPress(key) ==
  /\ ~ULess(NValues - 1, _selection)
  /\ EventLoopKey(key)

\* The terminal is resized between two keys: OnKey and Draw read LINES anew
\* on every call.  Heights up to MaxLines change into one another.
Resize ==
  /\ InMain("getch", 0)
  /\ LINES <= MaxLines
  /\ LINES' \in (1..MaxLines) \ {LINES}
  /\ UNCHANGED <<envVars, loadVars, pc, hpc, err, procVars, uiUp, _quitting, _topline,
                 _selection, obsVars>>

NextKeys ==
  \/ EventLoopDraw
  \/ \E key \in Keys : KeyPress(key)
  \/ Resize
  \/ OnMsgSignal
  \/ MainReturn

SpecKeys == InitKeys /\ [][NextKeys]_vars

\* ------------------------------------------------------------ drawing every class of row

\* The records whose rows are drawn: each class empty, with one value, and
\* full.
RowHeaders ==
  [magic : {TERMINFO_MAGIC}, nameSize : {0}, nBooleans : {0, 1, NBooleans},
   nNumbers : {0, 1, NNumbers}, nStrings : {0, 1, NStrings}, strtableSize : 0..MaxStrtable]

\* The top lines the window is scrolled to: the first rows of each class,
\* the last row of each class, and the end of the table.
RowTops ==
  {FirstBoolean, FirstNumber - 1, FirstNumber, FirstString - 1, FirstString, NValues - 1}

InitRows ==
  /\ realloc0Null = FALSE
  /\ \E hd \in RowHeaders, seed \in 0..MaxSeed : Loaded(hd, seed)
  /\ InEventLoop
  /\ LINES = MaxLines
  /\ _topline \in RowTops
  /\ _selection = _topline

SpecRows == InitRows /\ [][NextDrawLine]_vars

\* ------------------------------------------------------------ value name tables

\* The names between the _( ) of each table, in the order of the source.
BooleanNames ==
  <<"auto_left_margin", "auto_right_margin", "no_esc_ctlc", "ceol_standout_glitch",
    "eat_newline_glitch", "erase_overstrike", "generic_type", "hard_copy",
    "has_meta_key", "has_status_line", "insert_null_glitch", "memory_above",
    "memory_below", "move_insert_mode", "move_standout_mode", "over_strike",
    "status_line_esc_ok", "dest_tabs_magic_smso", "tilde_glitch",
    "transparent_underline", "xon_xoff", "needs_xon_xoff", "prtr_silent",
    "hard_cursor", "non_rev_rmcup", "no_pad_char", "non_dest_scroll_region",
    "can_change", "back_color_erase", "hue_lightness_saturation", "col_addr_glitch",
    "cr_cancels_micro_mode", "has_print_wheel", "row_addr_glitch",
    "semi_auto_right_margin", "cpi_changes_res", "lpi_changes_res",
    "backspaces_with_bs", "crt_no_scrolling", "no_correctly_working_cr",
    "gnu_has_meta_key", "linefeed_is_newline", "has_hardware_tabs",
    "return_does_clr_eol">>

NumberNames ==
  <<"columns", "init_tabs", "lines", "lines_of_memory", "magic_cookie_glitch",
    "padding_baud_rate", "virtual_terminal", "width_status_line", "num_labels",
    "label_height", "label_width", "max_attributes", "maximum_windows", "max_colors",
    "max_pairs", "no_color_video", "buffer_capacity", "dot_vert_spacing",
    "dot_horz_spacing", "max_micro_address", "max_micro_jump", "micro_col_size",
    "micro_line_size", "number_of_pins", "output_res_char", "output_res_line",
    "output_res_horz_inch", "output_res_vert_inch", "print_rate", "wide_char_size",
    "buttons", "bit_image_entwining", "bit_image_type", "magic_cookie_glitch_ul",
    "carriage_return_delay", "new_line_delay", "backspace_delay",
    "horizontal_tab_delay", "number_of_function_keys">>

StringNames ==
  <<"back_tab", "bell", "carriage_return", "change_scroll_region", "clear_all_tabs",
    "clear_screen", "clr_eol", "clr_eos", "column_address", "command_character",
    "cursor_address", "cursor_down", "cursor_home", "cursor_invisible", "cursor_left",
    "cursor_mem_address", "cursor_normal", "cursor_right", "cursor_to_ll", "cursor_up",
    "cursor_visible", "delete_character", "delete_line", "dis_status_line",
    "down_half_line", "enter_alt_charset_mode", "enter_blink_mode", "enter_bold_mode",
    "enter_ca_mode", "enter_delete_mode", "enter_dim_mode", "enter_insert_mode",
    "enter_secure_mode", "enter_protected_mode", "enter_reverse_mode",
    "enter_standout_mode", "enter_underline_mode", "erase_chars",
    "exit_alt_charset_mode", "exit_attribute_mode", "exit_ca_mode", "exit_delete_mode",
    "exit_insert_mode", "exit_standout_mode", "exit_underline_mode", "flash_screen",
    "form_feed", "from_status_line", "init_1string", "init_2string", "init_3string",
    "init_file", "insert_character", "insert_line", "insert_padding", "key_backspace",
    "key_catab", "key_clear", "key_ctab", "key_dc", "key_dl", "key_down", "key_eic",
    "key_eol", "key_eos", "key_f0", "key_f1", "key_f10", "key_f2", "key_f3", "key_f4",
    "key_f5", "key_f6", "key_f7", "key_f8", "key_f9", "key_home", "key_ic", "key_il",
    "key_left", "key_ll", "key_npage", "key_ppage", "key_right", "key_sf", "key_sr",
    "key_stab", "key_up", "keypad_local", "keypad_xmit", "lab_f0", "lab_f1", "lab_f10",
    "lab_f2", "lab_f3", "lab_f4", "lab_f5", "lab_f6", "lab_f7", "lab_f8", "lab_f9",
    "meta_off", "meta_on", "newline", "pad_char", "parm_dch", "parm_delete_line",
    "parm_down_cursor", "parm_ich", "parm_index", "parm_insert_line",
    "parm_left_cursor", "parm_right_cursor", "parm_rindex", "parm_up_cursor",
    "pkey_key", "pkey_local", "pkey_xmit", "print_screen", "prtr_off", "prtr_on",
    "repeat_char", "reset_1string", "reset_2string", "reset_3string", "reset_file",
    "restore_cursor", "row_address", "save_cursor", "scroll_forward", "scroll_reverse",
    "set_attributes", "set_tab", "set_window", "tab", "to_status_line",
    "underline_char", "up_half_line", "init_prog", "key_a1", "key_a3", "key_b2",
    "key_c1", "key_c3", "prtr_non", "char_padding", "acs_chars", "plab_norm",
    "key_btab", "enter_xon_mode", "exit_xon_mode", "enter_am_mode", "exit_am_mode",
    "xon_character", "xoff_character", "ena_acs", "label_on", "label_off", "key_beg",
    "key_cancel", "key_close", "key_command", "key_copy", "key_create", "key_end",
    "key_enter", "key_exit", "key_find", "key_help", "key_mark", "key_message",
    "key_move", "key_next", "key_open", "key_options", "key_previous", "key_print",
    "key_redo", "key_reference", "key_refresh", "key_replace", "key_restart",
    "key_resume", "key_save", "key_suspend", "key_undo", "key_sbeg", "key_scancel",
    "key_scommand", "key_scopy", "key_screate", "key_sdc", "key_sdl", "key_select",
    "key_send", "key_seol", "key_sexit", "key_sfind", "key_shelp", "key_shome",
    "key_sic", "key_sleft", "key_smessage", "key_smove", "key_snext", "key_soptions",
    "key_sprevious", "key_sprint", "key_sredo", "key_sreplace", "key_sright",
    "key_srsume", "key_ssave", "key_ssuspend", "key_sundo", "req_for_input", "key_f11",
    "key_f12", "key_f13", "key_f14", "key_f15", "key_f16", "key_f17", "key_f18",
    "key_f19", "key_f20", "key_f21", "key_f22", "key_f23", "key_f24", "key_f25",
    "key_f26", "key_f27", "key_f28", "key_f29", "key_f30", "key_f31", "key_f32",
    "key_f33", "key_f34", "key_f35", "key_f36", "key_f37", "key_f38", "key_f39",
    "key_f40", "key_f41", "key_f42", "key_f43", "key_f44", "key_f45", "key_f46",
    "key_f47", "key_f48", "key_f49", "key_f50", "key_f51", "key_f52", "key_f53",
    "key_f54", "key_f55", "key_f56", "key_f57", "key_f58", "key_f59", "key_f60",
    "key_f61", "key_f62", "key_f63", "clr_bol", "clear_margins", "set_left_margin",
    "set_right_margin", "label_format", "set_clock", "display_clock", "remove_clock",
    "create_window", "goto_window", "hangup", "dial_phone", "quick_dial", "tone",
    "pulse", "flash_hook", "fixed_pause", "wait_tone", "user0", "user1", "user2",
    "user3", "user4", "user5", "user6", "user7", "user8", "user9", "orig_pair",
    "orig_colors", "initialize_color", "initialize_pair", "set_color_pair",
    "set_foreground", "set_background", "change_char_pitch", "change_line_pitch",
    "change_res_horz", "change_res_vert", "define_char", "enter_doublewide_mode",
    "enter_draft_quality", "enter_italics_mode", "enter_leftward_mode",
    "enter_micro_mode", "enter_near_letter_quality", "enter_normal_quality",
    "enter_shadow_mode", "enter_subscript_mode", "enter_superscript_mode",
    "enter_upward_mode", "exit_doublewide_mode", "exit_italics_mode",
    "exit_leftward_mode", "exit_micro_mode", "exit_shadow_mode", "exit_subscript_mode",
    "exit_superscript_mode", "exit_upward_mode", "micro_column_address", "micro_down",
    "micro_left", "micro_right", "micro_row_address", "micro_up", "order_of_pins",
    "parm_down_micro", "parm_left_micro", "parm_right_micro", "parm_up_micro",
    "select_char_set", "set_bottom_margin", "set_bottom_margin_parm",
    "set_left_margin_parm", "set_right_margin_parm", "set_top_margin",
    "set_top_margin_parm", "start_bit_image", "start_char_set_def", "stop_bit_image",
    "stop_char_set_def", "subscript_characters", "superscript_characters",
    "these_cause_cr", "zero_motion", "char_set_names", "key_mouse", "mouse_info",
    "req_mouse_pos", "get_mouse", "set_a_foreground", "set_a_background", "pkey_plab",
    "device_type", "code_set_init", "set0_des_seq", "set1_des_seq", "set2_des_seq",
    "set3_des_seq", "set_lr_margin", "set_tb_margin", "bit_image_repeat",
    "bit_image_newline", "bit_image_carriage_return", "color_names",
    "define_bit_image_region", "end_bit_image_region", "set_color_band",
    "set_page_length", "display_pc_char", "enter_pc_charset_mode",
    "exit_pc_charset_mode", "enter_scancode_mode", "exit_scancode_mode",
    "pc_term_options", "scancode_escape", "alt_scancode_esc",
    "enter_horizontal_hl_mode", "enter_left_hl_mode", "enter_low_hl_mode",
    "enter_right_hl_mode", "enter_top_hl_mode", "enter_vertical_hl_mode",
    "set_a_attributes", "set_pglen_inch", "termcap_init2", "termcap_reset",
    "linefeed_if_not_lf", "backspace_if_not_bs", "other_non_function_keys",
    "arrow_key_map", "acs_ulcorner", "acs_llcorner", "acs_urcorner", "acs_lrcorner",
    "acs_ltee", "acs_rtee", "acs_btee", "acs_ttee", "acs_hline", "acs_vline",
    "acs_plus", "memory_lock", "memory_unlock", "box_chars_1">>

\* A byte of a packed table: NUL, or character j of the table's name k.
NUL == <<0, 0>>

\* The array "\0" s1 "\0" s2 ... "\0" sn of names lo..hi, as the macro
\* #define _(s) "\0" s lays it out.
RECURSIVE PackedRange(_, _, _)
PackedRange(names, lo, hi) ==
  IF lo = hi THEN <<NUL>> \o [j \in 1..Len(names[lo]) |-> <<lo, j>>]
  ELSE LET mid == (lo + hi) \div 2 IN
       PackedRange(names, lo, mid) \o PackedRange(names, mid + 1, hi)

\* The whole array: the literal and the NUL that ends it (sizeof counts both).
Packed(names) == PackedRange(names, 1, Len(names)) \o <<NUL>>

c_BooleanNames == Packed(BooleanNames)
c_NumberNames == Packed(NumberNames)
c_StringNames == Packed(StringNames)

\* repnz scasb with al = 0: from offset p, at most cnt bytes are compared with
\* NUL; it stops behind the first NUL.  <<edi, ecx>> afterwards.
RECURSIVE scasb(_, _, _)
scasb(strs, p, cnt) ==
  IF cnt = 0 THEN <<p, cnt>>
  ELSE IF strs[p + 1] = NUL THEN <<p + 1, cnt - 1>>
  ELSE scasb(strs, p + 1, cnt - 1)

\* strlen (strs + p); a byte beyond the array is taken as the end.
RECURSIVE strlen(_, _)
strlen(strs, p) ==
  IF p >= Len(strs) \/ strs[p + 1] = NUL THEN 0 ELSE 1 + strlen(strs, p + 1)

\* The two builds of GetStrtableEntry (#if __i386__ || __x86_64__).
Archs == {"x86", "portable"}

Classes == {"boolean", "number", "string"}
TableSize(class) ==
  IF class = "boolean" THEN NBooleans ELSE IF class = "number" THEN NNumbers ELSE NStrings
NamesOf(class) ==
  IF class = "boolean" THEN BooleanNames
  ELSE IF class = "number" THEN NumberNames ELSE StringNames
TableOf(class) ==
  IF class = "boolean" THEN c_BooleanNames
  ELSE IF class = "number" THEN c_NumberNames ELSE c_StringNames

\* GetBooleanName (i), GetNumberName (i), GetStringName (i) entering
\* GetStrtableEntry: i is the loop counter, p the offset of strs into the
\* array, cnt the x86 build's strssize (ecx).
GetName(arch, class, idx) ==
  [arch |-> arch, class |-> class, idx |-> idx,
   i |-> min(idx, TableSize(class)) + 1, p |-> 0, cnt |-> Len(TableOf(class)),
   done |-> FALSE]

\* One turn of  do { repnz scasb } while (--i);
ScasLoop(st) ==
  LET r == scasb(TableOf(st.class), st.p, st.cnt) IN
  [st EXCEPT !.i = @ - 1, !.p = r[1], !.cnt = r[2], !.done = (st.i - 1 = 0)]

\* One turn of  for (...; --i && strs < strsend;) strs += strlen(strs)+1;
StrlenLoop(st) ==
  IF st.i - 1 # 0 /\ st.p < Len(TableOf(st.class))
  THEN [st EXCEPT !.i = @ - 1, !.p = @ + strlen(TableOf(st.class), st.p) + 1]
  ELSE [st EXCEPT !.i = @ - 1, !.done = TRUE]

\* One turn of GetStrtableEntry's loop, as built; when done, p is the offset
\* into the array of the pointer returned.
GetStrtableEntry(st) == IF st.arch = "x86" THEN ScasLoop(st) ELSE StrlenLoop(st)

\* n turns of the loop, or as many as it takes to end.
RECURSIVE Turns(_, _)
Turns(st, n) ==
  IF st.done \/ n = 0 THEN st
  ELSE IF n = 1 THEN GetStrtableEntry(st)
  ELSE Turns(Turns(st, n \div 2), n - (n \div 2))

\* The offset GetXName (idx) returns in a build: the loop run to its end.
Returned(arch, class, idx) ==
  Turns(GetName(arch, class, idx), min(idx, TableSize(class)) + 1).p

\* The ordinals looked up: every one of the table, some behind it, and the
\* largest values an unsigned and a uint16_t hold.
Ordinals(class) == 0..(TableSize(class) + MaxBeyond) \cup {65535, -1}

\* A lookup starts, for a build, a class and an ordinal.
LookupCall(arch, class, idx) ==
  /\ lookup = NoLookup
  /\ lookup' = GetName(arch, class, idx)
  /\ UNCHANGED <<envVars, loadVars, pc, hpc, err, procVars, uiVars, drawSaw, line, run, prev>>

LookupLoop ==
  /\ lookup # NoLookup
  /\ ~lookup.done
  /\ lookup' = GetStrtableEntry(lookup)
  /\ UNCHANGED <<envVars, loadVars, pc, hpc, err, procVars, uiVars, drawSaw, line, run, prev>>

InitCatalog ==
  /\ file = NoFile
  /\ realloc0Null = FALSE
  /\ InitProcess

NextCatalog ==
  \/ \E arch \in Archs, class \in Classes : \E idx \in Ordinals(class) :
       LookupCall(arch, class, idx)
  \/ LookupLoop

SpecCatalog == InitCatalog /\ [][NextCatalog]_vars

\* ------------------------------------------------------------ the input, as the claims see it

\* Field k (1..6) of the header the file holds, read from its bytes.
FileWord(k) == file[2 * k - 1] + 256 * file[2 * k]

HasHeader == file # NoFile /\ Len(file) >= HeaderSize
GoodMagic == FileWord(1) = TERMINFO_MAGIC
CountsWithinMaxima ==
  FileWord(3) <= NBooleans /\ FileWord(4) <= NNumbers /\ FileWord(5) <= NStrings

\* The bytes the header declares for each section, and for them all.
Declared ==
  [name |-> FileWord(2), abool |-> FileWord(3), anum |-> 2 * FileWord(4),
   astro |-> 2 * FileWord(5), strings |-> FileWord(6)]
DeclaredEnd ==
  HeaderSize + Declared.name + Declared.abool + Declared.anum + Declared.astro
    + Declared.strings

ValidHeader == HasHeader /\ GoodMagic /\ CountsWithinMaxima
CompleteFile == ValidHeader /\ Len(file) >= DeclaredEnd
TruncatedFile == ValidHeader /\ Len(file) < DeclaredEnd

LoadFailed == err \in {"open", "read", "format", "memory"}
InLoad == pc[1] \in {"main", "open", "header", "check", "alloc", "read", "close"}
\* LoadTerminfo has just returned to main.
LoadReturned == pc = <<"InitUI", 0>>
PastCheck == pc[1] \notin {"main", "open", "header", "check"}
NothingAllocated == \A s \in SectionSet : _info.p[s] = NULL /\ heap[s].st = "none"

\* ------------------------------------------------------------ claims

\* C1: every file with the magic 0432, counts within the maxima (zero counts
\* and sizes included) and all declared bytes present loads without error,
\* and the five sections of the loaded record have the declared lengths.
C1_ValidFileLoads ==
  CompleteFile =>
    /\ ~LoadFailed
    /\ LoadReturned =>
         \A s \in SectionSet :
           /\ _info.p[s] # NULL
           /\ heap[_info.p[s]].st = "live"
           /\ Len(heap[_info.p[s]].data) = Declared[s]

\* C2, as claimed: a file whose first two bytes are not the magic fails with
\* the format error and not the I/O error, whatever its length, and is read
\* at most once.
C2_BadMagicIsFormatError ==
  (file # NoFile /\ Len(file) >= 2 /\ ~GoodMagic) =>
    /\ nreads <= 1
    /\ err \in {"none", "format"}
    /\ PastCheck => err = "format"

\* C2, amended: a file that holds a whole 12-byte header with a wrong magic
\* fails with the format error after the one read of the header, with nothing
\* allocated; a file shorter than the header fails with the I/O error of that
\* one read, whatever its first two bytes are.
C2_BadMagicAfterWholeHeader ==
  /\ (HasHeader /\ ~GoodMagic) =>
       /\ nreads <= 1
       /\ pos <= HeaderSize
       /\ NothingAllocated
       /\ err \in {"none", "format"}
       /\ PastCheck => err = "format"
  /\ (file # NoFile /\ Len(file) < HeaderSize) =>
       /\ nreads <= 1
       /\ NothingAllocated
       /\ err \in {"none", "read"}
       /\ pc[1] \notin {"main", "open", "header"} => err = "read"

C2_Witness ==
  /\ HasHeader /\ ~GoodMagic /\ CountsWithinMaxima
  /\ err = "format" /\ nreads = 1 /\ Terminated

\* C3: a file cut short of a section its (valid) header declares fails with
\* the I/O error of a short read, and never loads.
C3_TruncatedIsIOError ==
  TruncatedFile => err \in {"none", "read"} /\ (InLoad \/ err = "read")

\* C4: a count above its maximum (44, 39, 414) fails with the format error,
\* decided after the one read of the header and before any buffer is
\* allocated or any byte of a section is read.
C4_CountsCheckedFirst ==
  (HasHeader /\ ~CountsWithinMaxima) =>
    /\ nreads <= 1
    /\ pos <= HeaderSize
    /\ NothingAllocated
    /\ err \in {"none", "format"}
    /\ PastCheck => err = "format"

C4_Witness ==
  /\ HasHeader /\ GoodMagic
  /\ FileWord(3) <= NBooleans /\ FileWord(4) <= NNumbers /\ FileWord(5) = NStrings + 1
  /\ err = "format" /\ nreads = 1 /\ pos = HeaderSize /\ Terminated

\* C8: once CleanupUI has released a loaded record, each of the five buffers
\* was freed exactly once and the record is empty again.
C8_ReleasedAsUnit ==
  (Terminated /\ err \in {"none", "ui"}) =>
    /\ _info = STerminfo
    /\ \A s \in SectionSet : heap[s].frees = 1

\* C5: whenever Draw() reads the record, from the event loop or from the
\* handler of a repaint signal, the record is still empty or wholly loaded.
C5_NoPartialRecordSeen == drawSaw.state # "partial"


\* What a finished lookup returned: an offset into the class's array.
LookupDone == lookup # NoLookup /\ lookup.done
LookupTable == TableOf(lookup.class)
LookupNames == NamesOf(lookup.class)

\* C6: for an ordinal below the table size the lookup returns the name at
\* that position of the class's table, which is not empty and differs from
\* the name of every other ordinal; boolean 0 is auto_left_margin, boolean 1
\* is auto_right_margin, string 0 is back_tab.
C6_NameOfOrdinal ==
  (LookupDone /\ ULess(lookup.idx, TableSize(lookup.class))) =>
    /\ lookup.p < Len(LookupTable)
    /\ LookupTable[lookup.p + 1] = <<lookup.idx + 1, 1>>
    /\ LookupNames[lookup.idx + 1] # ""
    /\ \A k \in 1..Len(LookupNames) :
         k # lookup.idx + 1 => LookupNames[k] # LookupNames[lookup.idx + 1]
    /\ (lookup.class = "boolean" /\ lookup.idx = 0) => LookupNames[1] = "auto_left_margin"
    /\ (lookup.class = "boolean" /\ lookup.idx = 1) => LookupNames[2] = "auto_right_margin"
    /\ (lookup.class = "string" /\ lookup.idx = 0) => LookupNames[1] = "back_tab"

\* C7: for an ordinal at or above the table size the lookup returns a
\* position inside the class's array.
C7_InsideTheArray ==
  (LookupDone /\ ~ULess(lookup.idx, TableSize(lookup.class))) =>
    lookup.p >= 0 /\ lookup.p < Len(LookupTable)

\* C9: the second load of a file ends as the first did: with the same
\* error, or with the same header and the same bytes in every section, none
\* of them indeterminate.
C9_SameOutcome ==
  (run = 2 /\ LoadEnded) =>
    /\ Outcome.err = prev.err
    /\ Outcome.hb = prev.hb
    /\ \A s \in SectionSet :
         /\ Outcome.data[s] = prev.data[s]
         /\ \A i \in 1..Len(Outcome.data[s]) : Outcome.data[s][i] # Uninit

C9_Witness ==
  /\ run = 2 /\ LoadEnded /\ err = "none"
  /\ Len(heap["astro"].data) > 0 /\ Len(heap["strings"].data) > 0

\* The string row just drawn has its offset on the last byte of the string
\* table, and that byte is NUL.
LastByteNul ==
  /\ line.class = "string"
  /\ line.di < h.nStrings
  /\ h.strtableSize > 0
  /\ Word("astro", line.di) = h.strtableSize - 1
  /\ Byte("strings", h.strtableSize - 1) = 0

\* C10: such a string is taken from the table (it is not out of range) and
\* is the empty string.
C10_LastByteEmpty ==
  LastByteNul =>
    /\ line.inTable
    /\ line.s = h.strtableSize - 1
    /\ line.slen = 0
    /\ line.v = <<>>

C10_Witness == LastByteNul /\ line.inTable /\ line.slen = 0 /\ h.strtableSize > 1

\* The event loop runs: main is in EventLoop and no quit handler has started.
UIRuns == hpc = Idle /\ pc[1] \in {"EventLoop", "getch"}

\* C11: while the event loop runs on a loaded record, no step (a key handled
\* by OnKey, a Draw, the handler of a repaint signal, a resize) changes the
\* header, a pointer or a byte of any of the five sections.
C11_RecordImmutable ==
  [][(UIRuns /\ UIRuns') => (_info' = _info /\ heap' = heap)]_vars

C11_Witness ==
  /\ UIRuns
  /\ _selection = NValues - 1 /\ _topline > 0
  /\ drawSaw.state = "complete"
  /\ RecordState = "complete"

\* The count the file declares for the class of the row just drawn, and the
\* array of the record that holds the values of the class.
DeclaredCount ==
  IF line.class = "boolean" THEN FileWord(3)
  ELSE IF line.class = "number" THEN FileWord(4) ELSE FileWord(5)
ArrayOf == [boolean |-> "abool", number |-> "anum", string |-> "astro"]

\* C12: a row whose ordinal is at or above the declared count of its class
\* shows false, -1 or the empty string, and drawing any row indexes abool,
\* anum and astro only below the declared counts.
C12_AbsentIsData ==
  line.class \in Classes =>
    /\ \A r \in line.reads :
         r[1] # "strings" => r[1] = ArrayOf[line.class] /\ r[2] >= 0 /\ r[2] < DeclaredCount
    /\ line.di >= DeclaredCount =>
         /\ line.known
         /\ line.reads = {}
         /\ line.class = "boolean" => line.v = "false"
         /\ line.class = "number" => line.v = -1
         /\ line.class = "string" => line.v = <<>>

C12_Witness ==
  /\ line.class = "number"
  /\ FileWord(4) = 1 /\ line.di = 1
  /\ line.v = -1

\* C13: a string whose offset is at or beyond the size of the string table
\* is empty and no byte of the table is read; otherwise the bytes read lie
\* between the offset and the end of the table, and the string ends at the
\* first NUL or at the end of the table.
C13_OffsetResolved ==
  (line.class = "string" /\ line.di < h.nStrings) =>
    LET off == Word("astro", line.di)
        size == h.strtableSize
    IN
    /\ off >= size =>
         /\ ~line.inTable
         /\ line.v = <<>>
         /\ \A r \in line.reads : r[1] # "strings"
    /\ off < size =>
         /\ line.inTable /\ line.s = off
         /\ line.known
         /\ line.slen <= size - off
         /\ \A r \in line.reads : r[1] = "strings" => r[2] >= off /\ r[2] < size
         /\ \A i \in 0..(line.slen - 1) : Byte("strings", off + i) # 0
         /\ line.slen < size - off => Byte("strings", off + line.slen) = 0

C13_Witness ==
  /\ line.class = "string" /\ line.inTable
  /\ line.slen > 0
  /\ line.slen = h.strtableSize - line.s

\* C14: a Draw of a loaded record reads no byte of the names buffer at or
\* beyond the declared nameSize.
C14_NameReadInBounds ==
  drawSaw.state = "complete" => drawSaw.nameReads <= FileWord(2)

\* C15: whatever the order of quit signals, exit and CleanupUI, no buffer is
\* freed more than once, and the second quit signal ends the process at once.
C15_NoDoubleFree ==
  /\ \A s \in SectionSet : heap[s].frees <= 1
  /\ err = "double" => Terminated

\* C16: the selection is a row of the table, 0 <= _selection <= NValues-1.
C16_SelectionValid == ~ULess(NValues - 1, _selection)

\* C17: after OnKey handled a key on a terminal of at least two lines,
\* _topline <= _selection <= _topline + (LINES-1) - 1, and the selection is
\* one of the rows Draw draws.
C17_SelectionVisible ==
  [][(pc = <<"getch", 0>> /\ pc' = <<"EventLoop", 0>> /\ LINES >= 2) =>
       /\ ~ULess(_selection', _topline')
       /\ ~ULess(LINES - 2, USub(_selection', _topline'))
       /\ ULess(USub(_selection', _topline'), min(NValues, LINES - 1))]_vars

\* C18: for every class and ordinal, the x86 build and the portable build
\* of GetStrtableEntry return the same offset into the array.
C18_BuildsAgree ==
  LookupDone => \A a \in Archs : Returned(a, lookup.class, lookup.idx) = lookup.p

====
